---------------------------- MODULE Spec2Model ----------------------------
(***************************************************************************)
(* Model of the resilient catalog API client of fence-calculator-react-ui  *)
(* (src/src/services/woocommerce.api.js): the endpoint-format cascade of    *)
(* woocommerceRequest, the URL builder buildWooCommerceUrl, the mock-data  *)
(* generator generateMockData, getConfig and the api facade; and of the    *)
(* effect of FenceCalculator.jsx that loads the fence types through it.    *)
(*                                                                         *)
(* Specifications: Spec (calls of the facade and of woocommerceRequest,    *)
(* one after the other), SpecUrl (buildWooCommerceUrl alone), SpecMock     *)
(* (generateMockData alone), SpecPair (two calls in flight), SpecConfig    *)
(* (getConfig and a caller writing to its result), SpecUi (the mount of    *)
(* the calculator).                                                        *)
(*                                                                         *)
(* JavaScript values that the code distinguishes by type (undefined, null, *)
(* numbers, strings, NaN) are records [t, n, s] so that they can be         *)
(* compared with each other.  A JavaScript object is the sequence of its    *)
(* [key, val] entries in insertion order, keys pairwise distinct.           *)
(***************************************************************************)
EXTENDS Integers, Sequences, FiniteSets, TLC

VARIABLES
    env,              \* process.env as read at module load (lines 25, 55, 56)
    primaryDomain,    \* const primaryDomain (line 25)
    endpointFormats,  \* API_CONFIG.endpointFormats (lines 47-51)
    consumerKey,      \* API_CONFIG.consumerKey (line 55)
    consumerSecret,   \* API_CONFIG.consumerSecret (line 56)
    now,              \* the wall clock read by new Date() (lines 277, 278, 331, 332)
    req,              \* one record per call slot of woocommerceRequest
    bIn,              \* arguments of a direct call of buildWooCommerceUrl
    bOut,             \* its result (NoValue before the call)
    calls,            \* log of the calls of generateMockData made on their own
    held,             \* the object getConfig returned to a caller (lines 84-89)
    ui                \* state of the FenceCalculator component (lines 27-33)

vars == <<env, primaryDomain, endpointFormats, consumerKey, consumerSecret,
          now, req, bIn, bOut, calls, held, ui>>

config == <<env, primaryDomain, endpointFormats, consumerKey, consumerSecret>>

\* what the cascade of woocommerceRequest neither reads nor writes
outside == <<bIn, bOut, calls, held, ui>>

-----------------------------------------------------------------------------
(* Bounds of the model.                                                    *)

\* largest number of own keys of a params object passed to buildWooCommerceUrl
MaxParams == 2
\* largest number of calls of generateMockData made on their own
MaxCalls == 2
\* largest length a caller grows the endpointFormats array to
MaxFormats == 4
\* last value of the wall clock
MaxNow == 1

-----------------------------------------------------------------------------
(* API_SETTINGS (lines 7-22).  woocommerceRequest reads USE_MOCK_DATA and  *)
(* REQUEST_TIMEOUT; no code reads MAX_RETRIES or RETRY_DELAY.  The model   *)
(* has no durations: a timer armed for REQUEST_TIMEOUT ms may fire at any  *)
(* later step.                                                             *)

REQUEST_TIMEOUT == 15000
MAX_RETRIES == 3
RETRY_DELAY == 1000

-----------------------------------------------------------------------------
(* JavaScript values.                                                      *)

Undefined == [t |-> "undefined", n |-> 0, s |-> ""]
Null == [t |-> "null", n |-> 0, s |-> ""]
NaN == [t |-> "NaN", n |-> 0, s |-> ""]
Num(k) == [t |-> "number", n |-> k, s |-> ""]
Str(x) == [t |-> "string", n |-> 0, s |-> x]

True == [t |-> "boolean", n |-> 1, s |-> ""]
False == [t |-> "boolean", n |-> 0, s |-> ""]

\* a slot that holds no value yet
NoValue == [t |-> "none", n |-> 0, s |-> ""]

\* String(v), the conversion URLSearchParams.append and template literals apply
ToStr(v) ==
    CASE v.t = "string" -> v.s
      [] v.t = "number" -> ToString(v.n)
      [] v.t = "NaN" -> "NaN"
      [] v.t = "null" -> "null"
      [] v.t = "undefined" -> "undefined"
      [] v.t = "boolean" -> IF v.n = 1 THEN "true" ELSE "false"

\* ToBoolean(v), the test of `if (v)` and `a || b`
Truthy(v) ==
    CASE v.t = "string" -> v.s # ""
      [] v.t = "number" -> v.n # 0
      [] v.t = "boolean" -> v.n = 1
      [] v.t = "object" -> TRUE
      [] OTHER -> FALSE

\* String.prototype.includes
Includes(s, sub) ==
    \E k \in 1..(Len(s) - Len(sub) + 1) : SubSeq(s, k, k + Len(sub) - 1) = sub

StartsWith(s, prefix) ==
    Len(s) >= Len(prefix) /\ SubSeq(s, 1, Len(prefix)) = prefix

(* Objects: sequences of [key, val] entries, keys pairwise distinct.       *)

Keys(obj) == {obj[k].key : k \in 1..Len(obj)}

HasKey(obj, key) == key \in Keys(obj)

\* obj[key]; undefined when obj has no such own key
Get(obj, key) ==
    IF HasKey(obj, key)
    THEN (CHOOSE e \in {obj[k] : k \in 1..Len(obj)} : e.key = key).val
    ELSE Undefined

\* obj[key] = val: an existing key keeps its position, a new key goes last
Put(obj, key, val) ==
    IF HasKey(obj, key)
    THEN [k \in 1..Len(obj) |->
            IF obj[k].key = key THEN [key |-> key, val |-> val] ELSE obj[k]]
    ELSE Append(obj, [key |-> key, val |-> val])

\* { ...a, ...b }
RECURSIVE SpreadInto(_, _)
SpreadInto(a, b) ==
    IF b = <<>> THEN a
    ELSE SpreadInto(Put(a, Head(b).key, Head(b).val), Tail(b))

-----------------------------------------------------------------------------
(* Configuration read at module load.                                      *)

\* values of REACT_APP_WOOCOMMERCE_URL, _CONSUMER_KEY and _CONSUMER_SECRET; ""
\* stands for an unset variable.  "your_woocommerce_site_url" is the value the
\* README's .env example shows.
Environments ==
    { [url |-> "", key |-> "", secret |-> ""],
      [url |-> "https://shop.test", key |-> "ck_1", secret |-> "cs_1"],
      [url |-> "your_woocommerce_site_url", key |-> "ck_1", secret |-> "cs_1"] }

\* process.env.X || fallback
OrDefault(x, fallback) == IF x # "" THEN x ELSE fallback

PrimaryDomainOf(e) == OrDefault(e.url, "https://example.com")

EndpointFormatsOf(domain) ==
    << domain \o "/wp-json/wc/v3",
       domain \o "/index.php/wp-json/wc/v3",
       domain \o "/wp-json/wc/v3" >>

\* new URL(s) without a base throws TypeError unless s is an absolute URL; the
\* strings of the model are either http(s) URLs or have no scheme at all
ParsesAsUrl(s) == StartsWith(s, "https://") \/ StartsWith(s, "http://")

-----------------------------------------------------------------------------
(* buildWooCommerceUrl.                                                    *)

\* API_CONFIG.endpointFormats[formatIndex] || API_CONFIG.endpointFormats[0]
PickFormatDropFallback(formatIndex) ==
    IF formatIndex \in 0..(Len(endpointFormats) - 1)
    THEN endpointFormats[formatIndex + 1]
    ELSE ""

PickFormat(formatIndex) ==
    IF /\ formatIndex \in 0..(Len(endpointFormats) - 1)
       /\ endpointFormats[formatIndex + 1] # ""
    THEN endpointFormats[formatIndex + 1]
    ELSE endpointFormats[1]

\* { consumer_key, consumer_secret, ...params }
AllParams(params) ==
    SpreadInto(<< [key |-> "consumer_key", val |-> Str(consumerKey)],
                  [key |-> "consumer_secret", val |-> Str(consumerSecret)] >>,
               params)

\* the forEach of lines 113-117: one search entry per key whose value is
\* neither undefined nor null, the value converted to a string
RECURSIVE SearchEntriesKeepNull(_)
SearchEntriesKeepNull(obj) ==
    IF obj = <<>> THEN <<>>
    ELSE IF Head(obj).val # Undefined
         THEN <<[key |-> Head(obj).key, val |-> ToStr(Head(obj).val)]>>
                  \o SearchEntriesKeepNull(Tail(obj))
         ELSE SearchEntriesKeepNull(Tail(obj))

RECURSIVE SearchEntries(_)
SearchEntries(obj) ==
    IF obj = <<>> THEN <<>>
    ELSE IF Head(obj).val # Undefined /\ Head(obj).val # Null
         THEN <<[key |-> Head(obj).key, val |-> ToStr(Head(obj).val)]>>
                  \o SearchEntries(Tail(obj))
         ELSE SearchEntries(Tail(obj))

\* URLSearchParams serialisation (the values of the model need no escaping)
RECURSIVE QueryString(_)
QueryString(entries) ==
    IF entries = <<>> THEN ""
    ELSE Head(entries).key \o "=" \o Head(entries).val
           \o (IF Tail(entries) = <<>> THEN "" ELSE "&" \o QueryString(Tail(entries)))

\* url.toString()
Href(base, endpoint, entries) ==
    base \o "/" \o endpoint
         \o (IF entries = <<>> THEN "" ELSE "?" \o QueryString(entries))

\* The result is [threw |-> TRUE, error] when new URL throws, otherwise
\* [threw |-> FALSE, href, base, path, query]: the string the function returns
\* and the parts it was serialised from.
buildWooCommerceUrl(endpoint, params, formatIndex) ==
    LET endpointFormat == PickFormat(formatIndex)
        entries == SearchEntries(AllParams(params))
    IN  IF ~ParsesAsUrl(endpointFormat \o "/" \o endpoint)
        THEN [threw |-> TRUE,
              error |-> [name |-> "TypeError", kind |-> "url", tpl |-> formatIndex,
                         status |-> 0]]
        ELSE [threw |-> FALSE,
              href |-> Href(endpointFormat, endpoint, entries),
              base |-> endpointFormat,
              path |-> endpoint,
              query |-> entries]

-----------------------------------------------------------------------------
(* String helpers of the mock-data generator.                              *)

Char(s, k) == SubSeq(s, k, k)

IsDigit(c) == Len(c) = 1 /\ Includes("0123456789", c)

DigitVal(c) == CHOOSE d \in 0..9 : Char("0123456789", d + 1) = c

\* number of leading decimal digits of s from position k on
RECURSIVE DigitRun(_, _)
DigitRun(s, k) ==
    IF k <= Len(s) /\ IsDigit(Char(s, k)) THEN 1 + DigitRun(s, k + 1) ELSE 0

RECURSIVE DecimalValue(_, _)
DecimalValue(s, len) ==
    IF len = 0 THEN 0
    ELSE 10 * DecimalValue(s, len - 1) + DigitVal(Char(s, len))

\* parseInt(v): v converted to a string, then its leading digits; NaN when it
\* has none (the strings of the model carry no sign and no leading blanks)
parseInt(v) ==
    LET s == ToStr(v)
        len == DigitRun(s, 1)
    IN  IF len = 0 THEN NaN ELSE Num(DecimalValue(s, len))

\* endpoint.split('/').pop(): what follows the last '/'
RECURSIVE LastSegmentFrom(_, _)
LastSegmentFrom(s, k) ==
    IF k = 0 THEN s
    ELSE IF Char(s, k) = "/" THEN SubSeq(s, k + 1, Len(s))
         ELSE LastSegmentFrom(s, k - 1)

LastSegment(s) == LastSegmentFrom(s, Len(s))

\* /products\/\d+/.test(s)
MatchesProductId(s) ==
    \E k \in 1..Len(s) :
        /\ k + 9 <= Len(s)
        /\ SubSeq(s, k, k + 8) = "products/"
        /\ IsDigit(Char(s, k + 9))

LowerOf(c) ==
    LET upper == "ABCDEFGHIJKLMNOPQRSTUVWXYZ"
        lower == "abcdefghijklmnopqrstuvwxyz"
    IN  IF Includes(upper, c)
        THEN Char(lower, CHOOSE k \in 1..26 : Char(upper, k) = c)
        ELSE c

\* String.prototype.toLowerCase
RECURSIVE toLowerCase(_)
toLowerCase(s) ==
    IF s = "" THEN ""
    ELSE LowerOf(Char(s, 1)) \o toLowerCase(SubSeq(s, 2, Len(s)))

\* new Date().toISOString() at clock value c
IsoString(c) == "1970-01-01T00:00:0" \o ToString(c) \o ".000Z"

\* 1000 + productId
Plus(k, v) == IF v.t = "number" THEN Num(k + v.n) ELSE NaN

-----------------------------------------------------------------------------
(* generateMockCategories.                                                 *)

Category(id, name, slug, count) ==
    [id |-> id, name |-> name, slug |-> slug, count |-> count]

generateMockCategories ==
    << Category(53, "Vinyl Fence", "vinyl-fence", 15),
       Category(49, "Aluminum Fence", "aluminum-fence", 10),
       Category(439, "Wood Fence", "wood-fence", 12),
       Category(296, "Chain Link Fence", "chain-link-fence", 8),
       Category(289, "Vinyl Panels", "vinyl-panels", 6),
       Category(290, "Vinyl Gates", "vinyl-gates", 4),
       Category(291, "Vinyl Posts", "vinyl-posts", 3),
       Category(292, "Aluminum Panels", "aluminum-panels", 5),
       Category(293, "Aluminum Posts", "aluminum-posts", 3),
       Category(295, "Aluminum Gates", "aluminum-gates", 4),
       Category(297, "Chain Link Fabric", "chain-link-fabric", 4),
       Category(298, "Chain Link Gates", "chain-link-gates", 3),
       Category(299, "Chain Link Posts", "chain-link-posts", 3),
       Category(300, "Wood Posts", "wood-posts", 3),
       Category(301, "Wood Panels", "wood-panels", 5),
       Category(302, "Wood Gates", "wood-gates", 4) >>

-----------------------------------------------------------------------------
(* generateMockProduct.                                                    *)

CategoryRef(id, name, slug) == [id |-> id, name |-> name, slug |-> slug]

Attribute(id, name, position, variation, options) ==
    [id |-> id, name |-> name, position |-> position, visible |-> TRUE,
     variation |-> variation, options |-> options]

\* const template (lines 272-356)
ProductTemplate(productId) ==
    LET p == ToStr(productId)
    IN  [ id |-> productId,
          name |-> "Mock Product " \o p,
          slug |-> "mock-product-" \o p,
          permalink |-> "https://example.com/product/mock-product-" \o p,
          date_created |-> IsoString(now),
          date_modified |-> IsoString(now),
          type |-> "simple",
          status |-> "publish",
          featured |-> FALSE,
          catalog_visibility |-> "visible",
          description |-> "This is a mock product description.",
          short_description |-> "Mock product short description.",
          sku |-> "SKU-" \o p,
          price |-> "99.99",
          regular_price |-> "99.99",
          sale_price |-> "",
          on_sale |-> FALSE,
          purchasable |-> TRUE,
          total_sales |-> 0,
          virtual |-> FALSE,
          downloadable |-> FALSE,
          downloads |-> <<>>,
          download_limit |-> -1,
          download_expiry |-> -1,
          external_url |-> "",
          button_text |-> "",
          tax_status |-> "taxable",
          tax_class |-> "",
          manage_stock |-> FALSE,
          stock_quantity |-> Null,
          stock_status |-> "instock",
          backorders |-> "no",
          backorders_allowed |-> FALSE,
          backordered |-> FALSE,
          sold_individually |-> FALSE,
          weight |-> "",
          dimensions |-> [length |-> "", width |-> "", height |-> ""],
          shipping_required |-> TRUE,
          shipping_taxable |-> TRUE,
          shipping_class |-> "",
          shipping_class_id |-> 0,
          reviews_allowed |-> TRUE,
          average_rating |-> "0.00",
          rating_count |-> 0,
          related_ids |-> <<>>,
          upsell_ids |-> <<>>,
          cross_sell_ids |-> <<>>,
          parent_id |-> 0,
          purchase_note |-> "",
          categories |-> <<>>,
          tags |-> <<>>,
          images |-> << [ id |-> Plus(1000, productId),
                          date_created |-> IsoString(now),
                          date_modified |-> IsoString(now),
                          src |-> "https://example.com/wp-content/uploads/mock-product-"
                                     \o p \o ".jpg",
                          name |-> "Mock Product " \o p,
                          alt |-> "Mock Product " \o p ] >>,
          attributes |-> <<>>,
          default_attributes |-> <<>>,
          variations |-> <<>>,
          grouped_products |-> <<>>,
          menu_order |-> 0,
          meta_data |-> <<>>,
          _links |-> [ self |-> << [href |-> "https://example.com/wp-json/wc/v3/products/"
                                              \o p] >>,
                      collection |-> << [href |->
                                          "https://example.com/wp-json/wc/v3/products"] >> ] ]

\* the object literal without its ...template
OverlayNoSpread(template, over) == over

\* { ...template, <overrides> }: the fields of over replace or extend template's
Overlay(template, over) ==
    [f \in (DOMAIN template) \cup (DOMAIN over) |->
        IF f \in DOMAIN over THEN over[f] ELSE template[f]]

\* generateMockProduct whose comparisons with 101 and 104 never succeed
generateMockProductNoOverride(productId) ==
    Overlay(ProductTemplate(productId),
            [ name |-> "Mock Product " \o ToStr(productId),
              fallback |-> TRUE,
              description |->
                  "This is a fallback product because the requested product could not be found.",
              attributes |-> << Attribute(1, "Width", 0, FALSE, <<"6 ft", "8 ft">>),
                                Attribute(2, "Height", 1, FALSE,
                                          <<"4 ft", "6 ft">>) >> ])

generateMockProduct(productId) ==
    LET template == ProductTemplate(productId)
    IN  IF productId = Num(101)
        THEN Overlay(template,
               [ name |-> "Vinyl Privacy Panel",
                 price |-> "89.99",
                 regular_price |-> "89.99",
                 categories |-> << CategoryRef(53, "Vinyl Fence", "vinyl-fence"),
                                   CategoryRef(289, "Vinyl Panels", "vinyl-panels") >>,
                 attributes |-> << Attribute(1, "Width", 0, FALSE, <<"6 ft", "8 ft">>),
                                   Attribute(2, "Height", 1, FALSE,
                                             <<"4 ft", "6 ft", "8 ft">>),
                                   Attribute(3, "Color", 2, FALSE,
                                             <<"White", "Almond">>) >>,
                 images |-> << [ id |-> 101,
                                 src |-> "https://example.com/vinyl-privacy.jpg",
                                 name |-> "Vinyl Privacy Panel",
                                 alt |-> "Vinyl Privacy Panel" ] >>,
                 description |->
                     "Our premium vinyl privacy panels are constructed with durable, low-maintenance materials that won't fade, crack, or peel. These panels provide complete privacy while maintaining a clean, attractive appearance.",
                 short_description |->
                     "Durable, low-maintenance vinyl privacy fence panels." ])
        ELSE IF productId = Num(104)
        THEN Overlay(template,
               [ name |-> "Vinyl Gate",
                 price |-> "219.99",
                 regular_price |-> "219.99",
                 categories |-> << CategoryRef(53, "Vinyl Fence", "vinyl-fence"),
                                   CategoryRef(290, "Vinyl Gates", "vinyl-gates") >>,
                 attributes |-> << Attribute(1, "Width", 0, TRUE,
                                             <<"3 ft", "4 ft", "5 ft", "6 ft">>),
                                   Attribute(2, "Height", 1, TRUE, <<"4 ft", "6 ft">>),
                                   Attribute(3, "Style", 2, TRUE,
                                             <<"Privacy", "Picket">>) >>,
                 images |-> << [ id |-> 104,
                                 src |-> "https://example.com/vinyl-gate.jpg",
                                 name |-> "Vinyl Gate",
                                 alt |-> "Vinyl Gate" ] >>,
                 description |->
                     "Our vinyl gates match perfectly with our vinyl fence panels for a consistent, elegant look. All hardware included for easy installation.",
                 short_description |->
                     "High-quality vinyl gate to match your vinyl fence." ])
        ELSE Overlay(template,
               [ name |-> "Mock Product " \o ToStr(productId),
                 fallback |-> TRUE,
                 description |->
                     "This is a fallback product because the requested product could not be found.",
                 attributes |-> << Attribute(1, "Width", 0, FALSE, <<"6 ft", "8 ft">>),
                                   Attribute(2, "Height", 1, FALSE,
                                             <<"4 ft", "6 ft">>) >> ])

-----------------------------------------------------------------------------
(* generateMockProducts and generateMockData.  Both yield                  *)
(* [threw |-> FALSE, value] on a normal return and [threw |-> TRUE, error] *)
(* when an exception leaves the function.                                  *)

Returned(v) == [threw |-> FALSE, value |-> v]

Threw(e) == [threw |-> TRUE, error |-> e]

Failure(name, kind, tpl, status) ==
    [name |-> name, kind |-> kind, tpl |-> tpl, status |-> status]

\* const baseProducts (lines 440-496)
baseProducts ==
    << [ id |-> 101, name |-> "Vinyl Privacy Panel", price |-> "89.99",
         categories |-> << CategoryRef(53, "Vinyl Fence", "vinyl-fence"),
                           CategoryRef(289, "Vinyl Panels", "vinyl-panels") >>,
         attributes |-> << Attribute(1, "Width", 0, FALSE, <<"6 ft", "8 ft">>),
                           Attribute(2, "Height", 1, FALSE, <<"4 ft", "6 ft", "8 ft">>),
                           Attribute(3, "Color", 2, FALSE, <<"White", "Almond">>) >> ],
       [ id |-> 102, name |-> "Vinyl Picket Panel", price |-> "79.99",
         categories |-> << CategoryRef(53, "Vinyl Fence", "vinyl-fence"),
                           CategoryRef(289, "Vinyl Panels", "vinyl-panels") >>,
         attributes |-> << Attribute(1, "Width", 0, FALSE, <<"6 ft", "8 ft">>),
                           Attribute(2, "Height", 1, FALSE, <<"3 ft", "4 ft">>),
                           Attribute(3, "Color", 2, FALSE, <<"White", "Almond">>) >> ],
       [ id |-> 103, name |-> "Vinyl Post", price |-> "45.99",
         categories |-> << CategoryRef(53, "Vinyl Fence", "vinyl-fence"),
                           CategoryRef(291, "Vinyl Posts", "vinyl-posts") >>,
         attributes |-> << Attribute(2, "Height", 0, FALSE,
                                     <<"4 ft", "5 ft", "6 ft", "8 ft">>),
                           Attribute(3, "Color", 1, FALSE, <<"White", "Almond">>) >> ],
       [ id |-> 104, name |-> "Vinyl Gate", price |-> "219.99",
         categories |-> << CategoryRef(53, "Vinyl Fence", "vinyl-fence"),
                           CategoryRef(290, "Vinyl Gates", "vinyl-gates") >>,
         attributes |-> << Attribute(1, "Width", 0, TRUE,
                                     <<"3 ft", "4 ft", "5 ft", "6 ft">>),
                           Attribute(2, "Height", 1, TRUE, <<"4 ft", "6 ft">>),
                           Attribute(3, "Style", 2, TRUE, <<"Privacy", "Picket">>) >> ] >>

\* product.categories.some(cat => cat.id === parseInt(categoryFilter)
\*                                || cat.slug === categoryFilter)
MatchesCategory(product, categoryFilter) ==
    \E k \in 1..Len(product.categories) :
        \/ Num(product.categories[k].id) = parseInt(categoryFilter)
        \/ Str(product.categories[k].slug) = categoryFilter

RECURSIVE MapToMockProduct(_)
MapToMockProduct(products) ==
    IF products = <<>> THEN <<>>
    ELSE <<generateMockProduct(Num(Head(products).id))>>
           \o MapToMockProduct(Tail(products))

generateMockProducts(endpoint, params) ==
    LET categoryFilter == Get(params, "category")
        searchFilter == Get(params, "search")
        InCategory(product) == MatchesCategory(product, categoryFilter)
        byCategory == IF Truthy(categoryFilter)
                      THEN SelectSeq(baseProducts, InCategory)
                      ELSE baseProducts
        NameHas(product) ==
            Includes(toLowerCase(product.name), toLowerCase(ToStr(searchFilter)))
    IN  IF Truthy(searchFilter) /\ searchFilter.t # "string"
        THEN \* searchFilter.toLowerCase is not a function
             Threw(Failure("TypeError", "synth", -1, 0))
        ELSE Returned(MapToMockProduct(
                 IF Truthy(searchFilter)
                 THEN SelectSeq(byCategory, NameHas)
                 ELSE byCategory))

\* generateMockData whose category branch honours params.parent: no mock
\* category has a parent field, so none passes the filter
generateMockDataParentFilter(endpoint, params) ==
    IF Includes(endpoint, "products")
    THEN IF Includes(endpoint, "categories")
         THEN IF HasKey(params, "parent")
              THEN Returned(<<>>)
              ELSE Returned(generateMockCategories)
         ELSE IF MatchesProductId(endpoint)
              THEN Returned(generateMockProduct(parseInt(Str(LastSegment(endpoint)))))
              ELSE generateMockProducts(endpoint, params)
    ELSE Returned(<<>>)

generateMockData(endpoint, params) ==
    IF Includes(endpoint, "products")
    THEN IF Includes(endpoint, "categories")
         THEN Returned(generateMockCategories)
         ELSE IF MatchesProductId(endpoint)
              THEN Returned(generateMockProduct(parseInt(Str(LastSegment(endpoint)))))
              ELSE generateMockProducts(endpoint, params)
    ELSE Returned(<<>>)

-----------------------------------------------------------------------------
(* woocommerceRequest: one call per slot.                                  *)
(*                                                                         *)
(* pc of a slot: "idle" (no call yet), "fetch" (suspended at               *)
(* `await fetch(url, fetchOptions)`, line 164), "json" (suspended at       *)
(* `await response.json()`, line 172), "resolved", "rejected".  The code   *)
(* between two awaits runs without interruption and is one step.           *)
(*                                                                         *)
(* i is the loop variable; timers holds the attempt indexes whose          *)
(* setTimeout of line 161 is armed; attempts is the log of the fetch calls *)
(* issued, in order; error is the exception last caught at line 180; via   *)
(* names the statement that settled the call: "live" (return of line 179), *)
(* "mock" (line 198), "throw" (line 202), "url" (the exception of line 141 *)
(* leaves the function), "synth" (the exception of line 198 leaves it),    *)
(* "end" (the loop ends without a return).  Two parts of the log are       *)
(* written by the transport, not by the code: answered and received of an  *)
(* attempt record the parsed body of the 2xx response the server gave it,  *)
(* and processed records that the server carried the request out.          *)
(* prev is the pc the slot's previous call ended with ("idle" for the      *)
(* first call of a slot); asked is what the caller invoked, as opposed to  *)
(* endpoint, params, method and data, the arguments woocommerceRequest     *)
(* received.                                                               *)

Slots == {1}

\* a data argument that is an object
Obj(entries) == [t |-> "object", n |-> 0, s |-> "", entries |-> entries]

\* JSON.stringify of an object whose values are strings
RECURSIVE JsonMembers(_)
JsonMembers(entries) ==
    IF entries = <<>> THEN ""
    ELSE "\"" \o Head(entries).key \o "\":\"" \o ToStr(Head(entries).val) \o "\""
           \o (IF Tail(entries) = <<>> THEN "" ELSE "," \o JsonMembers(Tail(entries)))

JsonStringify(data) == "{" \o JsonMembers(data.entries) \o "}"

NoError == Failure("none", "none", -1, 0)

\* the exported operation a caller invoked and the arguments it gave
Asked(op, endpoint, params, data) ==
    [op |-> op, endpoint |-> endpoint, params |-> params, data |-> data]

IdleRequest ==
    [ pc |-> "idle", endpoint |-> "", params |-> <<>>, method |-> "GET",
      data |-> Null, useMockData |-> True, i |-> 0, timers |-> {},
      attempts |-> <<>>, error |-> NoError, via |-> "none", result |-> Undefined,
      prev |-> "idle", asked |-> Asked("none", "", <<>>, Undefined) ]

\* const { useMockData = API_SETTINGS.USE_MOCK_DATA } = options
UseMockDataOf(options) ==
    IF Get(options, "useMockData") = Undefined THEN True
    ELSE Get(options, "useMockData")

Settle(q, pc, via, result) ==
    [q EXCEPT !.pc = pc, !.via = via, !.result = result]

\* fetchOptions.body (lines 155-157)
BodyOf(q) ==
    IF Truthy(q.data) /\ q.method \in {"POST", "PUT"}
    THEN Str(JsonStringify(q.data))
    ELSE Undefined

\* One pass from the loop test of line 140 to the await of line 164.
\* LoopStep with the url always built from the first format
LoopStepFirstFormat(q) ==
    IF q.i >= Len(endpointFormats)
    THEN Settle(q, "resolved", "end", Undefined)
    ELSE LET url == buildWooCommerceUrl(q.endpoint, q.params, 0)
         IN  IF url.threw
             THEN Settle([q EXCEPT !.error = url.error], "rejected", "url", url.error)
             ELSE [q EXCEPT
                     !.pc = "fetch",
                     !.timers = @ \cup {q.i},
                     !.attempts = Append(@, [ tpl |-> q.i,
                                              href |-> url.href,
                                              base |-> url.base,
                                              query |-> url.query,
                                              method |-> q.method,
                                              body |-> BodyOf(q),
                                              outcome |-> "pending",
                                              processed |-> FALSE,
                                              answered |-> FALSE,
                                              received |-> Undefined ])]

LoopStep(q) ==
    IF q.i >= Len(endpointFormats)
    THEN Settle(q, "resolved", "end", Undefined)
    ELSE LET url == buildWooCommerceUrl(q.endpoint, q.params, q.i)
         IN  IF url.threw
             THEN Settle([q EXCEPT !.error = url.error], "rejected", "url", url.error)
             ELSE [q EXCEPT
                     !.pc = "fetch",
                     !.timers = @ \cup {q.i},
                     !.attempts = Append(@, [ tpl |-> q.i,
                                              href |-> url.href,
                                              base |-> url.base,
                                              query |-> url.query,
                                              method |-> q.method,
                                              body |-> BodyOf(q),
                                              outcome |-> "pending",
                                              processed |-> FALSE,
                                              answered |-> FALSE,
                                              received |-> Undefined ])]

\* the outcome of the attempt in flight is known
Outcome(q, outcome) ==
    [q EXCEPT !.attempts[Len(q.attempts)].outcome = outcome]

\* Catch that tries the failed format once more before moving on
CatchRetrySame(q, error) ==
    LET c == [Outcome(q, error.kind) EXCEPT !.error = error]
    IN  IF Len(c.attempts) < 2 * (c.i + 1)
        THEN LoopStep(c)
        ELSE IF c.i < Len(endpointFormats) - 1
        THEN LoopStep([c EXCEPT !.i = c.i + 1])
        ELSE IF Truthy(c.useMockData)
             THEN LET mock == generateMockData(c.endpoint, c.params)
                  IN  IF mock.threw
                      THEN Settle(c, "rejected", "synth", mock.error)
                      ELSE Settle(c, "resolved", "mock", mock.value)
             ELSE Settle(c, "rejected", "throw", error)

\* Catch that keeps the first exception of the call and throws that one
CatchThrowsFirst(q, error) ==
    LET first == IF q.error = NoError THEN error ELSE q.error
        c == [Outcome(q, error.kind) EXCEPT !.error = first]
    IN  IF c.i < Len(endpointFormats) - 1
        THEN LoopStep([c EXCEPT !.i = c.i + 1])
        ELSE IF Truthy(c.useMockData)
             THEN LET mock == generateMockData(c.endpoint, c.params)
                  IN  IF mock.threw
                      THEN Settle(c, "rejected", "synth", mock.error)
                      ELSE Settle(c, "resolved", "mock", mock.value)
             ELSE Settle(c, "rejected", "throw", first)

\* Catch that treats a decode failure as final, whatever the format index
CatchDecodeFinal(q, error) ==
    LET c == [Outcome(q, error.kind) EXCEPT !.error = error]
    IN  IF c.i < Len(endpointFormats) - 1 /\ error.kind # "decode"
        THEN LoopStep([c EXCEPT !.i = c.i + 1])
        ELSE IF Truthy(c.useMockData)
             THEN LET mock == generateMockData(c.endpoint, c.params)
                  IN  IF mock.threw
                      THEN Settle(c, "rejected", "synth", mock.error)
                      ELSE Settle(c, "resolved", "mock", mock.value)
             ELSE Settle(c, "rejected", "throw", error)

\* The catch block of lines 180-203, entered with the exception `error` thrown
\* by the attempt in flight, up to the next await or to the end of the call.
Catch(q, error) ==
    LET c == [Outcome(q, error.kind) EXCEPT !.error = error]
    IN  IF c.i < Len(endpointFormats) - 1
        THEN LoopStep([c EXCEPT !.i = c.i + 1])
        ELSE IF Truthy(c.useMockData)
             THEN LET mock == generateMockData(c.endpoint, c.params)
                  IN  IF mock.threw
                      THEN Settle(c, "rejected", "synth", mock.error)
                      ELSE Settle(c, "resolved", "mock", mock.value)
             ELSE Settle(c, "rejected", "throw", error)

\* the body of woocommerceRequest up to its first await
woocommerceRequest(endpoint, params, method, data, options) ==
    LoopStep([IdleRequest EXCEPT
                !.endpoint = endpoint, !.params = params, !.method = method,
                !.data = data, !.useMockData = UseMockDataOf(options)])

\* fetch resolved with a response of the given status: lines 165-170
OnResponse(q, status) ==
    LET c == [q EXCEPT !.timers = @ \ {q.i}]
    IN  IF status \in 200..299
        THEN [c EXCEPT !.pc = "json"]
        ELSE Catch(c, Failure("Error", "http", q.i, status))

\* the callback of line 161 for attempt k: abortController.abort()
OnTimeout(q, k) ==
    LET c == [q EXCEPT !.timers = @ \ {k}]
    IN  IF c.pc \in {"fetch", "json"} /\ k = c.i
        THEN Catch(c, Failure("AbortError", "timeout", k, 0))
        ELSE c

\* OnJson without the return of line 179: the loop goes on
OnJsonNoReturn(q, responseData) ==
    LoopStep([Outcome(q, "ok") EXCEPT !.i = q.i + 1])

\* response.json() resolved with the parsed body: lines 172-179
OnJson(q, responseData) ==
    Settle(Outcome(q, "ok"), "resolved", "live", responseData)

-----------------------------------------------------------------------------
(* The api facade (createWooCommerceClient).                               *)

apiGet(endpoint, params) == woocommerceRequest(endpoint, params, "GET", Null, <<>>)

\* post with the data passed in the place of params
apiPostDataAsParams(endpoint, data) ==
    woocommerceRequest(endpoint, IF data.t = "object" THEN data.entries ELSE <<>>,
                       "POST", Null, <<>>)

apiPost(endpoint, data) == woocommerceRequest(endpoint, <<>>, "POST", data, <<>>)

apiPut(endpoint, data) == woocommerceRequest(endpoint, <<>>, "PUT", data, <<>>)

apiDelete(endpoint, params) == woocommerceRequest(endpoint, params, "DELETE", Null, <<>>)

-----------------------------------------------------------------------------
(* Inputs.                                                                 *)

Entry(key, val) == [key |-> key, val |-> val]

\* endpoint and params of the calls of api.get and api.delete
ReadCalls ==
    { [endpoint |-> "products/categories", params |-> <<>>],
      [endpoint |-> "products/categories",
       params |-> <<Entry("parent", Num(0)), Entry("per_page", Num(20))>>],
      [endpoint |-> "products", params |-> <<Entry("category", Str("53"))>>],
      [endpoint |-> "products", params |-> <<Entry("search", Str("gate"))>>],
      [endpoint |-> "products", params |-> <<Entry("search", Num(5))>>],
      [endpoint |-> "products",
       params |-> <<Entry("consumer_key", Null), Entry("page", Undefined)>>],
      [endpoint |-> "products/101", params |-> <<>>],
      [endpoint |-> "products/999", params |-> <<>>],
      [endpoint |-> "orders", params |-> <<>>] }

DeleteCalls ==
    { [endpoint |-> "products/101", params |-> <<Entry("force", True)>>] }

\* endpoint and data of the calls of api.post and api.put
WriteCalls ==
    { [endpoint |-> "products", data |-> Obj(<<Entry("name", Str("Gate"))>>)],
      [endpoint |-> "products/101", data |-> Obj(<<>>)],
      [endpoint |-> "products", data |-> Null] }

\* endpoint, params and options of the direct calls of woocommerceRequest
DirectCalls ==
    { [endpoint |-> "products/categories", params |-> <<>>,
       options |-> <<Entry("useMockData", False)>>],
      [endpoint |-> "products", params |-> <<Entry("search", Str("gate"))>>,
       options |-> <<Entry("useMockData", False)>>],
      [endpoint |-> "products/101/variations", params |-> <<>>,
       options |-> <<Entry("useMockData", True)>>] }

\* HTTP statuses a server answers with
Statuses == {200, 404}

\* parsed bodies of 2xx responses
Bodies ==
    { <<>>, <<Category(53, "Vinyl Fence", "vinyl-fence", 15)>> }

\* arguments of the direct calls of buildWooCommerceUrl
ParamKeys == {"category", "search", "consumer_key", "consumer_secret"}

ParamValues == {Undefined, Null, Num(0), Str("53")}

ParamObjects ==
    UNION { { obj \in [1..len -> [key : ParamKeys, val : ParamValues]] :
                \A a, b \in 1..len : a # b => obj[a].key # obj[b].key }
            : len \in 0..MaxParams }

FormatIndexes == -1..4

BuildInputs ==
    [endpoint : {"products", "products/101"}, params : ParamObjects,
     formatIndex : FormatIndexes]

NoInput == [endpoint |-> "", params |-> <<>>, formatIndex |-> 0]

-----------------------------------------------------------------------------
(* Initial state: the module has been loaded.                              *)

InitConfig ==
    /\ env \in Environments
    /\ primaryDomain = PrimaryDomainOf(env)
    /\ endpointFormats = EndpointFormatsOf(PrimaryDomainOf(env))
    /\ consumerKey = OrDefault(env.key, "")
    /\ consumerSecret = OrDefault(env.secret, "")

\* the useState initial values of FenceCalculator (lines 27-33); pc is the
\* position of loadFenceTypes: "unmounted" (the effect has not run), "loading"
\* (suspended at `await api.get`, line 43), "done"; last names the handler
\* of the stepper that ran last
InitialUi ==
    [ pc |-> "unmounted", activeStep |-> 0, loading |-> FALSE, error |-> Null,
      fenceTypes |-> <<>>, selectedFenceType |-> Str(""), fenceSections |-> <<>>,
      quoteDetails |-> Null, last |-> "none" ]

\* no call of generateMockData or getConfig yet, the component not mounted
InitOutside ==
    /\ calls = <<>>
    /\ held = NoValue
    /\ ui = InitialUi

Init ==
    /\ InitConfig
    /\ now = 0
    /\ req = [r \in Slots |-> IdleRequest]
    /\ bIn = NoInput
    /\ bOut = NoValue
    /\ InitOutside

-----------------------------------------------------------------------------
(* Actions.                                                                *)

Settled(q) == q.pc \in {"resolved", "rejected"}

InFlight(q) == q.pc \in {"fetch", "json"}

Free(r) == req[r].pc \in {"idle", "resolved", "rejected"}

Becomes(r, q) ==
    /\ req' = [req EXCEPT ![r] = q]
    /\ UNCHANGED <<config, now, outside>>

\* a new call takes the slot of a settled one
Begins(r, q) == Becomes(r, [q EXCEPT !.prev = req[r].pc])

\* the call of an exported operation with the arguments of `asked`
Invokes(r, q, asked) == Begins(r, [q EXCEPT !.asked = asked])

\* the server's 2xx answer to the attempt in flight carries responseData
Answered(q, responseData) ==
    [q EXCEPT !.attempts[Len(q.attempts)].processed = TRUE,
              !.attempts[Len(q.attempts)].answered = TRUE,
              !.attempts[Len(q.attempts)].received = responseData]

CallGet(r) ==
    /\ Free(r)
    /\ \E c \in ReadCalls :
           Invokes(r, apiGet(c.endpoint, c.params),
                   Asked("api.get", c.endpoint, c.params, Undefined))

CallDelete(r) ==
    /\ Free(r)
    /\ \E c \in DeleteCalls :
           Invokes(r, apiDelete(c.endpoint, c.params),
                   Asked("api.delete", c.endpoint, c.params, Undefined))

CallPost(r) ==
    /\ Free(r)
    /\ \E c \in WriteCalls :
           Invokes(r, apiPost(c.endpoint, c.data),
                   Asked("api.post", c.endpoint, <<>>, c.data))

CallPut(r) ==
    /\ Free(r)
    /\ \E c \in WriteCalls :
           Invokes(r, apiPut(c.endpoint, c.data),
                   Asked("api.put", c.endpoint, <<>>, c.data))

\* a caller that passes options (woocommerceRequest is exported)
CallRequest(r) ==
    /\ Free(r)
    /\ \E c \in DirectCalls :
           Invokes(r, woocommerceRequest(c.endpoint, c.params, "GET", Null, c.options),
                   Asked("woocommerceRequest", c.endpoint, c.params, Null))

\* the transport delivers the response headers
FetchResolves(r) ==
    /\ req[r].pc = "fetch"
    /\ \E status \in Statuses : Becomes(r, OnResponse(req[r], status))

\* the transport fails (DNS, connection refused, TLS, CORS): fetch rejects
FetchRejects(r) ==
    /\ req[r].pc = "fetch"
    /\ Becomes(r, Catch(req[r], Failure("TypeError", "network", req[r].i, 0)))

\* abort of a controller that every call shares: it cancels the attempt in
\* flight of every call
abortShared(rs, r, k) ==
    [s \in DOMAIN rs |->
        IF s = r THEN OnTimeout(rs[r], k)
        ELSE IF rs[s].pc \in {"fetch", "json"}
             THEN Catch(rs[s], Failure("AbortError", "timeout", rs[s].i, 0))
             ELSE rs[s]]

\* abortController.abort() for attempt k of call r.  The controller and the
\* timer are constants of one loop iteration of one call (lines 160-162), so
\* the abort reaches that attempt alone.
abort(rs, r, k) == [rs EXCEPT ![r] = OnTimeout(rs[r], k)]

\* The timer of attempt k fires: abortController.abort().  It rejects the
\* pending fetch (or body read) of that attempt with an AbortError and does
\* nothing when the attempt has ended.
TimerFires(r) ==
    \E k \in req[r].timers :
        /\ req' = abort(req, r, k)
        /\ UNCHANGED <<config, now, outside>>

\* the body arrives and parses
JsonResolves(r) ==
    /\ req[r].pc = "json"
    /\ \E responseData \in Bodies :
           Becomes(r, OnJson(Answered(req[r], responseData), responseData))

\* the body arrives and is not JSON: response.json() rejects
JsonRejects(r) ==
    /\ req[r].pc = "json"
    /\ Becomes(r, Catch(req[r], Failure("SyntaxError", "decode", req[r].i, 0)))

\* time passes
Tick ==
    /\ now < MaxNow
    /\ now' = now + 1
    /\ UNCHANGED <<config, req, outside>>

Next ==
    \/ \E r \in Slots : CallGet(r)
    \/ \E r \in Slots : CallDelete(r)
    \/ \E r \in Slots : CallPost(r)
    \/ \E r \in Slots : CallPut(r)
    \/ \E r \in Slots : CallRequest(r)
    \/ \E r \in Slots : FetchResolves(r)
    \/ \E r \in Slots : FetchRejects(r)
    \/ \E r \in Slots : TimerFires(r)
    \/ \E r \in Slots : JsonResolves(r)
    \/ \E r \in Slots : JsonRejects(r)
    \/ Tick

Spec == Init /\ [][Next]_vars

-----------------------------------------------------------------------------
(* buildWooCommerceUrl called on its own.                                  *)

InitUrl ==
    /\ InitConfig
    /\ now = 0
    /\ req = [r \in Slots |-> IdleRequest]
    /\ bIn \in BuildInputs
    /\ bOut = NoValue
    /\ InitOutside

BuildUrl ==
    /\ bOut = NoValue
    /\ bOut' = buildWooCommerceUrl(bIn.endpoint, bIn.params, bIn.formatIndex)
    /\ UNCHANGED <<config, now, req, bIn, calls, held, ui>>

NextUrl == BuildUrl

SpecUrl == InitUrl /\ [][NextUrl]_vars

-----------------------------------------------------------------------------
(* generateMockData called on its own, at most MaxCalls times, at any      *)
(* times.  calls logs each call: its arguments, the clock value it ran at  *)
(* and what it returned or threw.                                          *)

\* endpoint and params of the calls
MockCalls ==
    { [endpoint |-> "products/categories", params |-> <<>>],
      [endpoint |-> "products/categories",
       params |-> <<Entry("parent", Num(0)), Entry("per_page", Num(20))>>],
      [endpoint |-> "products/101", params |-> <<>>],
      [endpoint |-> "products/104", params |-> <<>>],
      [endpoint |-> "products/102", params |-> <<>>],
      [endpoint |-> "products/999", params |-> <<>>],
      [endpoint |-> "products/101/variations", params |-> <<>>],
      [endpoint |-> "products", params |-> <<>>],
      [endpoint |-> "products", params |-> <<Entry("category", Str("53"))>>],
      [endpoint |-> "products", params |-> <<Entry("category", Num(53))>>],
      [endpoint |-> "products", params |-> <<Entry("category", Str("vinyl-gates"))>>],
      [endpoint |-> "products", params |-> <<Entry("category", Str("49"))>>],
      [endpoint |-> "products", params |-> <<Entry("search", Str("gate"))>>],
      [endpoint |-> "products", params |-> <<Entry("search", Str("GATE"))>>],
      [endpoint |-> "products", params |-> <<Entry("search", Str("vinyl"))>>],
      [endpoint |-> "products",
       params |-> <<Entry("category", Str("vinyl-gates")),
                    Entry("search", Str("Gate"))>>],
      [endpoint |-> "orders", params |-> <<>>] }

InitMock == Init

Synthesize ==
    /\ Len(calls) < MaxCalls
    /\ \E c \in MockCalls :
           calls' = Append(calls, [ endpoint |-> c.endpoint,
                                    params |-> c.params,
                                    at |-> now,
                                    out |-> generateMockData(c.endpoint, c.params) ])
    /\ UNCHANGED <<config, now, req, bIn, bOut, held, ui>>

NextMock ==
    \/ Synthesize
    \/ Tick

SpecMock == InitMock /\ [][NextMock]_vars

-----------------------------------------------------------------------------
(* Two calls of woocommerceRequest in flight at the same time: a category  *)
(* load through the facade and a product load with fallback disabled,      *)
(* started in either order and interleaved in every way.                   *)

Pair == {1, 2}

\* the call each activation makes
PairCalls ==
    [r \in Pair |->
        IF r = 1
        THEN [endpoint |-> "products/categories", params |-> <<>>, options |-> <<>>]
        ELSE [endpoint |-> "products/101", params |-> <<>>,
              options |-> <<Entry("useMockData", False)>>]]

InitPair ==
    /\ InitConfig
    /\ now = 0
    /\ req = [r \in Pair |-> IdleRequest]
    /\ bIn = NoInput
    /\ bOut = NoValue
    /\ InitOutside

CallInPair(r) ==
    /\ req[r].pc = "idle"
    /\ Invokes(r, woocommerceRequest(PairCalls[r].endpoint, PairCalls[r].params,
                                      "GET", Null, PairCalls[r].options),
                Asked("woocommerceRequest", PairCalls[r].endpoint,
                      PairCalls[r].params, Null))

NextPair ==
    \/ \E r \in Pair : CallInPair(r)
    \/ \E r \in Pair : FetchResolves(r)
    \/ \E r \in Pair : FetchRejects(r)
    \/ \E r \in Pair : TimerFires(r)
    \/ \E r \in Pair : JsonResolves(r)
    \/ \E r \in Pair : JsonRejects(r)

SpecPair == InitPair /\ [][NextPair]_vars

-----------------------------------------------------------------------------
(* Writes through the facade.  The request of an attempt may reach the     *)
(* server and be carried out whatever becomes of the response: the         *)
(* response may be lost (fetch rejects), come too late (the timer fires),  *)
(* carry a failure status or a body that does not parse.                   *)

\* the server carries out the request of the attempt in flight
ServerProcesses(r) ==
    /\ req[r].pc = "fetch"
    /\ ~req[r].attempts[Len(req[r].attempts)].processed
    /\ Becomes(r, [req[r] EXCEPT !.attempts[Len(req[r].attempts)].processed = TRUE])

NextWrite ==
    \/ \E r \in Slots : CallPost(r)
    \/ \E r \in Slots : CallPut(r)
    \/ \E r \in Slots : CallDelete(r)
    \/ \E r \in Slots : ServerProcesses(r)
    \/ \E r \in Slots : FetchResolves(r)
    \/ \E r \in Slots : FetchRejects(r)
    \/ \E r \in Slots : TimerFires(r)
    \/ \E r \in Slots : JsonResolves(r)
    \/ \E r \in Slots : JsonRejects(r)

SpecWrite == Init /\ [][NextWrite]_vars

-----------------------------------------------------------------------------
(* getConfig and a caller that writes to what it returned, before and      *)
(* during a request.                                                       *)

\* const API_SETTINGS (lines 7-22)
API_SETTINGS ==
    [ USE_MOCK_DATA |-> TRUE, REQUEST_TIMEOUT |-> REQUEST_TIMEOUT,
      MAX_RETRIES |-> MAX_RETRIES, RETRY_DELAY |-> RETRY_DELAY,
      DEBUG_MODE |-> TRUE, SHOW_FALLBACK_WARNINGS |-> TRUE, LOG_LEVEL |-> "debug" ]

\* a property that holds an array: the array itself, not a copy of it
Ref(name) == [ref |-> name]

\* { ...API_CONFIG, settings: { ...API_SETTINGS } }: a new object whose
\* properties are those of API_CONFIG, the two arrays being the arrays
\* API_CONFIG holds, and whose settings is a new object
getConfig ==
    [ endpointFormats |-> Ref("API_CONFIG.endpointFormats"),
      alternativeDomains |-> Ref("API_CONFIG.alternativeDomains"),
      consumerKey |-> consumerKey,
      consumerSecret |-> consumerSecret,
      settings |-> API_SETTINGS ]

\* what a caller writes into the array of formats
WrittenFormats == {"https://evil.test/wp-json/wc/v3"}

CallGetConfig ==
    /\ held = NoValue
    /\ held' = getConfig
    /\ UNCHANGED <<config, now, req, bIn, bOut, calls, ui>>

\* cfg.consumerKey = 'ck_other': a write to the returned object
CallerSetsKey ==
    /\ held # NoValue
    /\ held.consumerKey # "ck_other"
    /\ held' = [held EXCEPT !.consumerKey = "ck_other"]
    /\ UNCHANGED <<config, now, req, bIn, bOut, calls, ui>>

\* cfg.settings.USE_MOCK_DATA = false: a write to the returned settings
CallerSetsPolicy ==
    /\ held # NoValue
    /\ held.settings.USE_MOCK_DATA
    /\ held' = [held EXCEPT !.settings.USE_MOCK_DATA = FALSE]
    /\ UNCHANGED <<config, now, req, bIn, bOut, calls, ui>>

\* cfg.endpointFormats[k] = v: a write to the array the property holds
CallerWritesFormat ==
    /\ held # NoValue
    /\ held.endpointFormats = Ref("API_CONFIG.endpointFormats")
    /\ \E k \in 1..Len(endpointFormats) : \E v \in WrittenFormats :
           /\ endpointFormats[k] # v
           /\ endpointFormats' = [endpointFormats EXCEPT ![k] = v]
    /\ UNCHANGED <<env, primaryDomain, consumerKey, consumerSecret,
                   now, req, bIn, bOut, calls, held, ui>>

\* cfg.endpointFormats.push(v)
CallerPushesFormat ==
    /\ held # NoValue
    /\ held.endpointFormats = Ref("API_CONFIG.endpointFormats")
    /\ Len(endpointFormats) < MaxFormats
    /\ \E v \in WrittenFormats : endpointFormats' = Append(endpointFormats, v)
    /\ UNCHANGED <<env, primaryDomain, consumerKey, consumerSecret,
                   now, req, bIn, bOut, calls, held, ui>>

\* the category load, once
CallCategories(r) ==
    /\ req[r].pc = "idle"
    /\ Invokes(r, apiGet("products/categories", <<>>),
                Asked("api.get", "products/categories", <<>>, Undefined))

NextConfig ==
    \/ CallGetConfig
    \/ CallerSetsKey
    \/ CallerSetsPolicy
    \/ CallerWritesFormat
    \/ CallerPushesFormat
    \/ \E r \in Slots : CallCategories(r)
    \/ \E r \in Slots : FetchResolves(r)
    \/ \E r \in Slots : FetchRejects(r)
    \/ \E r \in Slots : TimerFires(r)
    \/ \E r \in Slots : JsonResolves(r)
    \/ \E r \in Slots : JsonRejects(r)

SpecConfig == Init /\ [][NextConfig]_vars

-----------------------------------------------------------------------------
(* FenceCalculator: the effect that loads the fence types on mount.        *)

HasNoneOf(name, words) == \A w \in words : ~Includes(name, w)

\* the filter without its test for 'Fence'
MainFenceTypesNoFenceTest(categories) ==
    LET IsMain(cat) == HasNoneOf(cat.name, {"Post", "Panel", "Gate"})
    IN  SelectSeq(categories, IsMain)

\* categories.filter(cat => cat.name.includes('Fence') && !... ) (lines 49-51)
MainFenceTypes(categories) ==
    LET IsMain(cat) ==
            /\ Includes(cat.name, "Fence")
            /\ HasNoneOf(cat.name, {"Post", "Panel", "Gate"})
    IN  SelectSeq(categories, IsMain)

\* The effect runs: lines 38-43 up to the await.  api.get is an async
\* function, so an exception of its body is a rejected promise.
Mount(r) ==
    /\ ui.pc = "unmounted"
    /\ req[r].pc = "idle"
    /\ ui' = [ui EXCEPT !.pc = "loading", !.loading = TRUE, !.error = Null]
    /\ req' = [req EXCEPT ![r] =
                  [apiGet("products/categories",
                          <<Entry("parent", Num(0)), Entry("per_page", Num(20))>>)
                     EXCEPT !.asked =
                         Asked("api.get", "products/categories",
                               <<Entry("parent", Num(0)), Entry("per_page", Num(20))>>,
                               Undefined)]]
    /\ UNCHANGED <<config, now, bIn, bOut, calls, held>>

\* loadFenceTypes resumes after the await: lines 47-59
LoadFenceTypesResumes(r) ==
    /\ ui.pc = "loading"
    /\ Settled(req[r])
    /\ ui' = IF req[r].pc = "resolved"
              THEN [ui EXCEPT !.pc = "done",
                              !.fenceTypes = MainFenceTypes(req[r].result),
                              !.loading = FALSE]
              ELSE [ui EXCEPT !.pc = "done",
                              !.error =
                                  Str("Failed to load fence types. Please try again later."),
                              !.loading = FALSE]
    /\ UNCHANGED <<config, now, req, bIn, bOut, calls, held>>

\* const steps = [...] (line 24)
steps == <<"Select Fence Type", "Configure Sections", "Review Quote">>

\* lines 66-68
handleFenceTypeChange(u, value) ==
    [u EXCEPT !.selectedFenceType = value, !.last = "handleFenceTypeChange"]

\* lines 71-73
handleNext(u) ==
    [u EXCEPT !.activeStep = @ + 1, !.last = "handleNext"]

\* lines 76-78
handleBack(u) ==
    [u EXCEPT !.activeStep = @ - 1, !.last = "handleBack"]

\* a reset that leaves the selection as it is
handleResetKeepsSelection(u) ==
    [u EXCEPT !.activeStep = 0, !.fenceSections = <<>>, !.quoteDetails = Null,
              !.last = "handleReset"]

\* lines 81-86
handleReset(u) ==
    [u EXCEPT !.activeStep = 0, !.selectedFenceType = Str(""),
              !.fenceSections = <<>>, !.quoteDetails = Null,
              !.last = "handleReset"]

\* a primary button that is Next on every step
onClickPrimaryAlwaysNext(u) == handleNext(u)

\* onClick of the primary button (line 183)
onClickPrimary(u) ==
    IF u.activeStep = Len(steps) - 1 THEN handleReset(u) ELSE handleNext(u)

\* disabled of the Back button (line 174)
BackDisabled(u) == u.activeStep = 0

\* disabled of the primary button (line 184)
PrimaryDisabled(u) == u.activeStep = 0 /\ ~Truthy(u.selectedFenceType)

\* The step content and the buttons are rendered when loading is false
\* (lines 164-190); the Select only on step 0 (lines 91-115), with one item
\* for each fence type, whose value is the id of the type, a number
\* (line 108).
SelectFenceType ==
    /\ ~ui.loading
    /\ ui.activeStep = 0
    /\ \E f \in 1..Len(ui.fenceTypes) :
           ui' = handleFenceTypeChange(ui, Num(ui.fenceTypes[f].id))
    /\ UNCHANGED <<config, now, req, bIn, bOut, calls, held>>

ClickBack ==
    /\ ~ui.loading
    /\ ~BackDisabled(ui)
    /\ ui' = handleBack(ui)
    /\ UNCHANGED <<config, now, req, bIn, bOut, calls, held>>

ClickPrimary ==
    /\ ~ui.loading
    /\ ~PrimaryDisabled(ui)
    /\ ui' = onClickPrimary(ui)
    /\ UNCHANGED <<config, now, req, bIn, bOut, calls, held>>

NextUi ==
    \/ \E r \in Slots : Mount(r)
    \/ \E r \in Slots : FetchResolves(r)
    \/ \E r \in Slots : FetchRejects(r)
    \/ \E r \in Slots : TimerFires(r)
    \/ \E r \in Slots : JsonResolves(r)
    \/ \E r \in Slots : JsonRejects(r)
    \/ \E r \in Slots : LoadFenceTypesResumes(r)
    \/ SelectFenceType
    \/ ClickBack
    \/ ClickPrimary

SpecUi == Init /\ [][NextUi]_vars

-----------------------------------------------------------------------------
(* Properties of the cascade.                                              *)

FailureKinds == {"timeout", "network", "http", "decode"}

\* every configured format was attempted and every attempt failed
AllFailed(q) ==
    /\ Len(q.attempts) = Len(endpointFormats)
    /\ \A k \in 1..Len(q.attempts) : q.attempts[k].outcome \in FailureKinds

\* C1: an attempt that the server answered with a 2xx response and a body that
\* parses is the last attempt of its request, and the request has resolved
\* with exactly that body: no later format is attempted.
C1_ShortCircuit ==
    \A r \in Slots : \A k \in 1..Len(req[r].attempts) :
        req[r].attempts[k].answered =>
            /\ k = Len(req[r].attempts)
            /\ req[r].pc = "resolved"
            /\ req[r].via = "live"
            /\ req[r].result = req[r].attempts[k].received

\* the second format answers after the first failed; the third is not tried
C1_Witness ==
    \E r \in Slots :
        /\ Len(req[r].attempts) = 2
        /\ req[r].attempts[2].answered
        /\ req[r].via = "live"
        /\ req[r].result = <<Category(53, "Vinyl Fence", "vinyl-fence", 15)>>

\* C2: the step in which the last format of a request with fallback enabled
\* fails resolves the request with generateMockData(endpoint, params), the
\* endpoint and params being those of the call; for products/categories that
\* is the list of 16 categories.
C2_FallbackResolvesWithMockData ==
    [][\A r \in Slots :
          ( /\ ~Settled(req[r])
            /\ Settled(req'[r])
            /\ AllFailed(req'[r])
            /\ Truthy(req'[r].useMockData) )
          => /\ req'[r].pc = "resolved"
             /\ ~generateMockData(req'[r].endpoint, req'[r].params).threw
             /\ req'[r].result
                  = generateMockData(req'[r].endpoint, req'[r].params).value
             /\ req'[r].endpoint = "products/categories"
                  => /\ req'[r].result = generateMockCategories
                     /\ Len(req'[r].result) = 16]_vars

\* C3: a request with fallback disabled whose attempts all failed has rejected
\* with the exception of its last attempt.
C3_RejectsWithLastFailure ==
    \A r \in Slots :
        (AllFailed(req[r]) /\ ~Truthy(req[r].useMockData)) =>
            /\ req[r].pc = "rejected"
            /\ req[r].via = "throw"
            /\ req[r].result.tpl = Len(endpointFormats) - 1
            /\ req[r].result.kind = req[r].attempts[Len(req[r].attempts)].outcome
            /\ req[r].result = req[r].error

\* the first attempt failed in the network, the last with a decode failure
C3_Witness ==
    \E r \in Slots :
        /\ AllFailed(req[r])
        /\ ~Truthy(req[r].useMockData)
        /\ req[r].attempts[1].outcome = "network"
        /\ req[r].attempts[Len(req[r].attempts)].outcome = "decode"
        /\ req[r].pc = "rejected"

\* C4: a request with fallback enabled never rejects.
C4_NeverRejectsWithFallback ==
    \A r \in Slots : Truthy(req[r].useMockData) => req[r].pc # "rejected"

\* C5: as long as an attempt waits for the transport, for the response headers
\* or for the body, the REQUEST_TIMEOUT timer armed for that attempt is pending:
\* its firing cancels the attempt, so no request waits for ever on a transport
\* that never completes.
C5_EveryWaitIsTimed ==
    \A r \in Slots : InFlight(req[r]) => req[r].i \in req[r].timers

\* C6: the k-th attempt of a request goes to the k-th configured format, and
\* every attempt but the last one has failed.
C6_FixedOrder ==
    \A r \in Slots : \A k \in 1..Len(req[r].attempts) :
        /\ req[r].attempts[k].tpl = k - 1
        /\ k <= Len(endpointFormats)
        /\ StartsWith(req[r].attempts[k].href,
                      endpointFormats[k] \o "/" \o req[r].endpoint)
        /\ k < Len(req[r].attempts) => req[r].attempts[k].outcome \in FailureKinds

\* the third attempt of a request that follows a request which resolved
C6_Witness ==
    \E r \in Slots :
        /\ req[r].prev = "resolved"
        /\ Len(req[r].attempts) = 3
        /\ req[r].pc = "fetch"

\* C7: a request issues at most one fetch per configured format, MAX_RETRIES
\* notwithstanding.
C7_NoInternalRetry ==
    \A r \in Slots :
        /\ Len(req[r].attempts) <= Len(endpointFormats)
        /\ \A j, k \in 1..Len(req[r].attempts) :
               j # k => req[r].attempts[j].tpl # req[r].attempts[k].tpl

\* every format failed and the request ended with mock data after one pass
C7_Witness ==
    \E r \in Slots :
        /\ AllFailed(req[r])
        /\ req[r].via = "mock"
        /\ Len(req[r].attempts) < MAX_RETRIES * Len(endpointFormats)

\* C8: when an attempt on a format that is not the last one fails, by timeout,
\* network fault, HTTP status or decode fault, the same step starts the
\* attempt on the next format and the request stays unsettled.
C8_FailuresContinue ==
    [][\A r \in Slots :
          ( /\ InFlight(req[r])
            /\ req[r].i < Len(endpointFormats) - 1
            /\ Len(req'[r].attempts) >= Len(req[r].attempts)
            /\ req'[r].attempts[Len(req[r].attempts)].outcome \in FailureKinds )
          => /\ req'[r].pc = "fetch"
             /\ req'[r].via = "none"
             /\ req'[r].i = req[r].i + 1
             /\ Len(req'[r].attempts) = Len(req[r].attempts) + 1
             /\ req'[r].attempts[Len(req'[r].attempts)].tpl = req[r].i + 1]_vars

\* a decode failure on the first format and a timeout on the second were
\* followed by the attempt on the third
C8_Witness ==
    \E r \in Slots :
        /\ Len(req[r].attempts) = 3
        /\ req[r].attempts[1].outcome = "decode"
        /\ req[r].attempts[2].outcome = "timeout"
        /\ req[r].pc = "fetch"

\* C21: the attempts of one request go to pairwise distinct urls: no url is
\* requested twice in one pass, in particular not one that failed to decode.
C21_CandidateUrlsDistinct ==
    \A r \in Slots : \A j, k \in 1..Len(req[r].attempts) :
        j # k => req[r].attempts[j].href # req[r].attempts[k].href

\* C23: a request that has resolved or rejected has no timer armed, so no
\* timer fires for an attempt that has ended.
C23_NoTimerOutlivesItsRequest ==
    \A r \in Slots : Settled(req[r]) => req[r].timers = {}

-----------------------------------------------------------------------------
(* Properties of the facade.                                               *)

Credentials == {"consumer_key", "consumer_secret"}

\* the attempt's query has the entry of every parameter the caller gave with a
\* value other than undefined and null, and no entry that is neither such a
\* parameter nor a credential
CarriesParams(a, params) ==
    /\ \A p \in 1..Len(params) :
           params[p].val \notin {Undefined, Null} =>
               \E k \in 1..Len(a.query) :
                   a.query[k] = [key |-> params[p].key, val |-> ToStr(params[p].val)]
    /\ Keys(a.query) \subseteq Keys(params) \cup Credentials

\* the part of C11 about api.get and api.delete, and what holds of every method
ReadsCarryParams(q, method) ==
    \A k \in 1..Len(q.attempts) :
        /\ q.method = method
        /\ q.endpoint = q.asked.endpoint
        /\ q.attempts[k].method = method
        /\ method \in {"GET", "DELETE"} =>
               /\ q.attempts[k].body = Undefined
               /\ CarriesParams(q.attempts[k], q.asked.params)
        /\ method \in {"POST", "PUT"} =>
               Keys(q.attempts[k].query) \subseteq Credentials

MethodOf(op) ==
    CASE op = "api.get" -> "GET"
      [] op = "api.post" -> "POST"
      [] op = "api.put" -> "PUT"
      [] op = "api.delete" -> "DELETE"

FacadeOps == {"api.get", "api.post", "api.put", "api.delete"}

-----------------------------------------------------------------------------
(* Properties of the writes.                                               *)

\* the attempts of q the server carried out
Processed(q) == {k \in 1..Len(q.attempts) : q.attempts[k].processed}

WriteOps == {"api.post", "api.put", "api.delete"}

\* C24 as stated: of the POSTs of one api.post call the server carries out at
\* most one.
C24_AtMostOnePostProcessed ==
    \A r \in Slots :
        req[r].asked.op = "api.post" => Cardinality(Processed(req[r])) <= 1

\* C24 (amended): one api.post call sends at most one POST to each configured
\* format, each with the same body, and none after an attempt was answered
\* with a body that parses; every earlier attempt has failed, carried out by
\* the server or not, so the server carries out at most as many POSTs as
\* there are formats.
C24_OnePostPerFormat ==
    \A r \in Slots :
        req[r].asked.op = "api.post" =>
            /\ Len(req[r].attempts) <= Len(endpointFormats)
            /\ Cardinality(Processed(req[r])) <= Len(endpointFormats)
            /\ \A k \in 1..Len(req[r].attempts) :
                   /\ req[r].attempts[k].tpl = k - 1
                   /\ req[r].attempts[k].method = "POST"
                   /\ req[r].attempts[k].body = req[r].attempts[1].body
                   /\ req[r].attempts[k].answered => k = Len(req[r].attempts)
                   /\ k < Len(req[r].attempts) =>
                          req[r].attempts[k].outcome \in FailureKinds

\* the server carried out the POST of each of the three attempts: the first
\* timed out, the answer to the second did not parse
C24_Witness ==
    \E r \in Slots :
        /\ req[r].asked.op = "api.post"
        /\ Processed(req[r]) = {1, 2, 3}
        /\ req[r].attempts[1].outcome = "timeout"
        /\ req[r].attempts[2].outcome = "decode"

\* C25 as stated: a call of api.post, api.put or api.delete that has resolved
\* was answered by some format with a 2xx response, and has resolved with
\* the body of that response.
C25_ResolvedWriteWasAnswered ==
    \A r \in Slots :
        (req[r].asked.op \in WriteOps /\ req[r].pc = "resolved") =>
            /\ req[r].via = "live"
            /\ \E k \in 1..Len(req[r].attempts) :
                   /\ req[r].attempts[k].answered
                   /\ req[r].result = req[r].attempts[k].received

\* C25 (amended): a call of api.post, api.put or api.delete that has resolved
\* either was answered by some format with a 2xx response and has resolved
\* with the body of that response, or met a failure on every format and has
\* resolved with the mock data of its endpoint.
C25_ResolvedWriteAnsweredOrMock ==
    \A r \in Slots :
        (req[r].asked.op \in WriteOps /\ req[r].pc = "resolved") =>
            \/ /\ req[r].via = "live"
                /\ \E k \in 1..Len(req[r].attempts) :
                       /\ req[r].attempts[k].answered
                       /\ req[r].result = req[r].attempts[k].received
            \/ /\ req[r].via = "mock"
                /\ AllFailed(req[r])
                /\ ~generateMockData(req[r].endpoint, req[r].params).threw
                /\ req[r].result
                     = generateMockData(req[r].endpoint, req[r].params).value

\* a delete that no server carried out has resolved, with a mock product
C25_Witness ==
    \E r \in Slots :
        /\ req[r].asked.op = "api.delete"
        /\ req[r].pc = "resolved"
        /\ req[r].via = "mock"
        /\ Processed(req[r]) = {}
        /\ AllFailed(req[r])

-----------------------------------------------------------------------------
(* Isolation of concurrent calls.                                          *)

\* the step changes something of call r
Touched(r) ==
    \/ req'[r].pc # req[r].pc
    \/ req'[r].i # req[r].i
    \/ req'[r].via # req[r].via
    \/ req'[r].timers # req[r].timers
    \/ req'[r].error # req[r].error
    \/ Len(req'[r].attempts) # Len(req[r].attempts)
    \/ \E k \in 1..Len(req[r].attempts) :
           \/ req'[r].attempts[k].outcome # req[r].attempts[k].outcome
           \/ req'[r].attempts[k].answered # req[r].attempts[k].answered

\* the handler call q ran when its attempt in flight ended as attempt a did
Replayed(q, a) ==
    CASE a.outcome = "network" -> Catch(q, Failure("TypeError", "network", q.i, 0))
      [] a.outcome = "http" -> OnResponse(q, 404)
      [] a.outcome = "timeout" -> OnTimeout(q, q.i)
      [] a.outcome = "decode" ->
             Catch(OnResponse(q, 200), Failure("SyntaxError", "decode", q.i, 0))
      [] a.outcome = "ok" ->
             OnJson(Answered(OnResponse(q, 200), a.received), a.received)
      [] OTHER -> q

\* call q after the transport outcomes of the first k attempts of the log
RECURSIVE RunAlone(_, _, _)
RunAlone(q, log, k) ==
    IF k = 0 THEN q ELSE Replayed(RunAlone(q, log, k - 1), log[k])

\* the call of q made on its own, given the transport outcomes q met
Alone(q) ==
    RunAlone(woocommerceRequest(q.endpoint, q.params, q.method, q.data,
                                <<Entry("useMockData", q.useMockData)>>),
             q.attempts, Len(q.attempts))

\* the same attempts and the same outcome
SameRun(p, q) ==
    /\ p.pc = q.pc
    /\ p.via = q.via
    /\ p.error = q.error
    /\ Len(p.attempts) = Len(q.attempts)
    /\ \A k \in 1..Len(p.attempts) :
           /\ p.attempts[k].tpl = q.attempts[k].tpl
           /\ p.attempts[k].href = q.attempts[k].href
           /\ p.attempts[k].outcome = q.attempts[k].outcome
    /\ p.result = q.result

\* C18: no step changes two calls, so the firing of the timer of one attempt
\* cancels that attempt alone; and a call that settles while another is or was
\* in flight has made the attempts and reached the outcome it reaches alone
\* with the same transport outcomes.
C18_Isolation ==
    [][ /\ \A r, s \in Pair : r # s => ~(Touched(r) /\ Touched(s))
        /\ \A r \in Pair :
               (InFlight(req[r]) /\ Settled(req'[r])) =>
                   SameRun(req'[r], Alone(req'[r])) ]_vars

\* the product load was aborted by its timer on the last format and rejected
\* while the category load is still waiting on its first format
C18_Witness ==
    /\ DOMAIN req = Pair
    /\ req[1].pc = "fetch"
    /\ Len(req[1].attempts) = 1
    /\ req[2].pc = "rejected"
    /\ req[2].via = "throw"
    /\ req[2].error.kind = "timeout"
    /\ req[2].attempts[1].outcome = "decode"

-----------------------------------------------------------------------------
(* The configuration after startup.                                        *)

\* C19: whatever the callers do with getConfig and its result, the template
\* list and the credentials stay those read at startup, every attempt goes to
\* one of the startup templates with the startup credentials, and a request
\* made without options runs with the fallback policy of API_SETTINGS.
C19_ConfigReadOnly ==
    /\ endpointFormats = EndpointFormatsOf(PrimaryDomainOf(env))
    /\ consumerKey = OrDefault(env.key, "")
    /\ consumerSecret = OrDefault(env.secret, "")
    /\ \A r \in Slots :
           /\ req[r].pc # "idle" => Truthy(req[r].useMockData) = API_SETTINGS.USE_MOCK_DATA
           /\ \A k \in 1..Len(req[r].attempts) :
                  /\ \E f \in 1..Len(EndpointFormatsOf(PrimaryDomainOf(env))) :
                         req[r].attempts[k].base = EndpointFormatsOf(PrimaryDomainOf(env))[f]
                  /\ req[r].attempts[k].query
                       = << [key |-> "consumer_key", val |-> OrDefault(env.key, "")],
                            [key |-> "consumer_secret", val |-> OrDefault(env.secret, "")] >>

-----------------------------------------------------------------------------
(* The calculator and the client together.                                 *)

\* the categories the README lists (lines 66-69)
ReadmeCategories ==
    << [name |-> "Vinyl Fence", id |-> 53],
       [name |-> "Aluminum Fence", id |-> 49],
       [name |-> "Wood Fence", id |-> 439],
       [name |-> "Chain Link Fence", id |-> 296] >>

\* C20: when the load started on mount has finished and every format failed
\* with fallback enabled, loading is false, no error is shown and the fence
\* types offered are the four categories of the README, each once.
C20_MountLoadsFourFenceTypes ==
    \A r \in Slots :
        ( /\ ui.pc = "done"
          /\ AllFailed(req[r])
          /\ Truthy(req[r].useMockData) )
        => /\ ui.loading = FALSE
           /\ ui.error = Null
           /\ Len(ui.fenceTypes) = Len(ReadmeCategories)
           /\ \A c \in 1..Len(ReadmeCategories) :
                  \E f \in 1..Len(ui.fenceTypes) :
                      /\ ui.fenceTypes[f].id = ReadmeCategories[c].id
                      /\ ui.fenceTypes[f].name = ReadmeCategories[c].name

\* the three formats failed, by status, by timeout and in the network, and
\* the load has finished
C20_Witness ==
    \E r \in Slots :
        /\ ui.pc = "done"
        /\ AllFailed(req[r])
        /\ req[r].attempts[1].outcome = "http"
        /\ req[r].attempts[2].outcome = "timeout"
        /\ req[r].attempts[3].outcome = "network"
        /\ req[r].via = "mock"
        /\ Len(ui.fenceTypes) = 4

-----------------------------------------------------------------------------
(* Properties of the stepper.                                              *)

\* C26: under every sequence of clicks on the enabled buttons and of
\* selections of a fence type, activeStep stays an index of steps (0..2); no
\* step leads from step 0 to a lower step (Back is not enabled there), and a
\* step that changes the state at the last step is Back or the reset: the
\* primary button resets there and does not increment.
C26_StepperBounds ==
    /\ [](ui.activeStep \in 0..(Len(steps) - 1))
    /\ [][ /\ ui.activeStep = 0 => ui'.activeStep >= 0
           /\ (ui.activeStep = Len(steps) - 1 /\ ui' # ui) =>
                  \/ ui' = handleBack(ui)
                  \/ ui' = handleReset(ui) /\ ui'.activeStep = 0 ]_vars

\* Next has led to the last step
C26_Witness ==
    /\ ui.activeStep = Len(steps) - 1
    /\ ui.last = "handleNext"
    /\ ~ui.loading

\* C27: in every reachable state activeStep >= 1 implies that a fence type
\* is selected; the step from the last step to step 0 (Start Over) clears
\* the selection and leaves the primary button disabled, and a disabled
\* primary button becomes enabled by a selection only.
C27_StepGating ==
    /\ [](ui.activeStep >= 1 => Truthy(ui.selectedFenceType))
    /\ [][ /\ (ui.activeStep = Len(steps) - 1 /\ ui'.activeStep = 0) =>
                  /\ ui'.selectedFenceType = Str("")
                  /\ PrimaryDisabled(ui')
           /\ (PrimaryDisabled(ui) /\ ~PrimaryDisabled(ui')) =>
                  \E f \in 1..Len(ui.fenceTypes) :
                      ui' = handleFenceTypeChange(ui, Num(ui.fenceTypes[f].id)) ]_vars

\* Start Over has run: step 0, no selection, Next disabled, and fence types
\* to select from
C27_Witness ==
    /\ ui.last = "handleReset"
    /\ ui.activeStep = 0
    /\ ui.selectedFenceType = Str("")
    /\ PrimaryDisabled(ui)
    /\ Len(ui.fenceTypes) > 0

-----------------------------------------------------------------------------
(* Properties of generateMockData.                                         *)

\* the calls logged for the given endpoint
CallsOf(endpoint) == {k \in 1..Len(calls) : calls[k].endpoint = endpoint}

\* C12: two calls of generateMockData with the same endpoint and the same
\* params return the same output, whenever they are made.
C12_SameArgumentsSameOutput ==
    \A j, k \in 1..Len(calls) :
        (calls[j].endpoint = calls[k].endpoint /\ calls[j].params = calls[k].params)
            => calls[j].out = calls[k].out

\* C13: every call of generateMockData on the category-list path returns the
\* same list, whatever the params, the time and the calls made before it; the
\* list has 16 entries with pairwise distinct ids and pairwise distinct slugs.
C13_CategoriesFixed ==
    \A j \in CallsOf("products/categories") :
        /\ ~calls[j].out.threw
        /\ Len(calls[j].out.value) = 16
        /\ \A a, b \in 1..Len(calls[j].out.value) :
               a # b => /\ calls[j].out.value[a].id # calls[j].out.value[b].id
                        /\ calls[j].out.value[a].slug # calls[j].out.value[b].slug
        /\ \A k \in CallsOf("products/categories") : calls[j].out = calls[k].out

\* a category call with params, later than and after one without
C13_Witness ==
    /\ Len(calls) = 2
    /\ calls[1].endpoint = "products/categories"
    /\ calls[1].params = <<>>
    /\ calls[2].endpoint = "products/categories"
    /\ HasKey(calls[2].params, "parent")
    /\ calls[2].at > calls[1].at
    /\ Len(calls[2].out.value) = 16

\* the logged calls on the collection path that returned and gave the filter
FilteredBy(key) ==
    {k \in CallsOf("products") : HasKey(calls[k].params, key) /\ ~calls[k].out.threw}

\* C14: every entry of the collection returned for {category: c} has, in its
\* own categories, a category whose id is the number c or whose slug is c.
C14_CategoryFilterHonoured ==
    \A k \in FilteredBy("category") :
        \A e \in 1..Len(calls[k].out.value) :
            MatchesCategory(calls[k].out.value[e], Get(calls[k].params, "category"))

\* C15: every entry of the collection returned for {search: s} has a name
\* that contains s, letter case ignored.
C15_SearchFilterHonoured ==
    \A k \in FilteredBy("search") :
        \A e \in 1..Len(calls[k].out.value) :
            Includes(toLowerCase(calls[k].out.value[e].name),
                     toLowerCase(ToStr(Get(calls[k].params, "search"))))

\* the endpoint is products/<digits>
IsSingleProductPath(endpoint) ==
    /\ StartsWith(endpoint, "products/")
    /\ Len(endpoint) > 9
    /\ DigitRun(endpoint, 10) = Len(endpoint) - 9

IdOf(endpoint) == DecimalValue(SubSeq(endpoint, 10, Len(endpoint)), Len(endpoint) - 9)

\* the ids generateMockProduct has an override for
Overridden == {101, 104}

HasWidth(product, options) ==
    \E a \in 1..Len(product.attributes) :
        /\ product.attributes[a].name = "Width"
        /\ product.attributes[a].options = options

\* C16: the product synthesized for products/101 is named "Vinyl Privacy
\* Panel", has a Width attribute with the options 6 ft and 8 ft and no
\* fallback field; the product synthesized for an id without an override has
\* fallback = true and a non-empty attribute list; a product has the fallback
\* field exactly when its id has no override.
C16_SingleProduct ==
    \A k \in 1..Len(calls) :
        IsSingleProductPath(calls[k].endpoint) =>
            LET id == IdOf(calls[k].endpoint)
                product == calls[k].out.value
            IN  /\ ~calls[k].out.threw
                /\ product.id = Num(id)
                /\ ("fallback" \in DOMAIN product) <=> (id \notin Overridden)
                /\ id = 101 =>
                       /\ product.name = "Vinyl Privacy Panel"
                       /\ HasWidth(product, <<"6 ft", "8 ft">>)
                /\ id \notin Overridden =>
                       /\ product.fallback = TRUE
                       /\ product.attributes # <<>>

\* products/999 and products/101 were both synthesized
C16_Witness ==
    /\ \E k \in CallsOf("products/999") : calls[k].out.value.fallback = TRUE
    /\ \E k \in CallsOf("products/101") :
           calls[k].out.value.name = "Vinyl Privacy Panel"

\* where the first products/<digit> of the endpoint starts
ProductIdAt(endpoint) ==
    CHOOSE k \in 1..Len(endpoint) :
        /\ k + 9 <= Len(endpoint)
        /\ SubSeq(endpoint, k, k + 8) = "products/"
        /\ IsDigit(Char(endpoint, k + 9))
        /\ \A j \in 1..(k - 1) :
               ~(SubSeq(endpoint, j, j + 8) = "products/" /\ IsDigit(Char(endpoint, j + 9)))

\* the number written after that products/
PathId(endpoint) ==
    LET from == ProductIdAt(endpoint) + 9
        len == DigitRun(endpoint, from)
    IN  DecimalValue(SubSeq(endpoint, from, from + len - 1), len)

\* C22: generateMockData returns, for a path that does not mention products,
\* the empty list; for a products path that contains "categories", the
\* category list; for a path with products/<digits>, whether or not further
\* segments follow, one product whose id is that number; for any other
\* products path, a collection of products.
C22_SynthesisDispatch ==
    \A k \in 1..Len(calls) :
        /\ ~calls[k].out.threw
        /\ CASE ~Includes(calls[k].endpoint, "products") ->
                    calls[k].out.value = <<>>
             [] Includes(calls[k].endpoint, "categories") ->
                    calls[k].out.value = generateMockCategories
             [] MatchesProductId(calls[k].endpoint) ->
                    calls[k].out.value.id = Num(PathId(calls[k].endpoint))
             [] OTHER ->
                    \A e \in 1..Len(calls[k].out.value) :
                        calls[k].out.value[e].id.t = "number"

\* the fields of the template product record
TemplateKeys == DOMAIN ProductTemplate(Num(0))

\* the fields of the catalog resources a consumer reads: Category and Product
CategoryKeys == {"id", "name", "slug", "count"}

ProductKeys ==
    {"id", "name", "price", "categories", "attributes", "stock_status", "variations"}

\* a product with the template's fields, all of them, and at most the
\* fallback field besides
ProductShaped(product) ==
    /\ (DOMAIN product) \ {"fallback"} = TemplateKeys
    /\ ProductKeys \subseteq DOMAIN product

-----------------------------------------------------------------------------
(* Properties of buildWooCommerceUrl.                                      *)

Built == bOut # NoValue /\ ~bOut.threw

EntriesOf(query, key) == {k \in 1..Len(query) : query[k].key = key}

\* C9: every url built has exactly one consumer_key and one consumer_secret
\* entry, holding the configured credentials.
C9_CredentialsAlwaysPresent ==
    Built =>
        /\ \E k \in 1..Len(bOut.query) :
               bOut.query[k] = [key |-> "consumer_key", val |-> consumerKey]
        /\ \E k \in 1..Len(bOut.query) :
               bOut.query[k] = [key |-> "consumer_secret", val |-> consumerSecret]
        /\ Cardinality(EntriesOf(bOut.query, "consumer_key")) = 1
        /\ Cardinality(EntriesOf(bOut.query, "consumer_secret")) = 1

\* C10: the query of a built url has one entry, the value as a string, for
\* every key of params whose value is neither undefined nor null, and none for
\* a key of params whose value is undefined or null; a format index outside
\* 0..Len(endpointFormats)-1 gives the url of index 0.
C10_ParamsAppendedOrSkipped ==
    Built =>
        /\ \A p \in 1..Len(bIn.params) :
               IF bIn.params[p].val \in {Undefined, Null}
               THEN EntriesOf(bOut.query, bIn.params[p].key) = {}
               ELSE /\ Cardinality(EntriesOf(bOut.query, bIn.params[p].key)) = 1
                    /\ \E k \in 1..Len(bOut.query) :
                           bOut.query[k] = [key |-> bIn.params[p].key,
                                            val |-> ToStr(bIn.params[p].val)]
        /\ bIn.formatIndex \notin 0..(Len(endpointFormats) - 1) =>
               /\ bOut.base = endpointFormats[1]
               /\ bOut = buildWooCommerceUrl(bIn.endpoint, bIn.params, 0)

\* an index past the last format, one param dropped and one appended as "0"
C10_Witness ==
    /\ Built
    /\ bIn.formatIndex = 4
    /\ bIn.params = <<Entry("category", Null), Entry("search", Num(0))>>
    /\ bOut.href = endpointFormats[1] \o "/products?consumer_key=" \o consumerKey
                      \o "&consumer_secret=" \o consumerSecret \o "&search=0"

=============================================================================
